---- MODULE Spec2Model ----
(***************************************************************************)
(* Model of packages/fc-rootfs/start_up.py: the orchestrator that launches *)
(* a Jupyter server, polls it until it answers, creates a session, looks   *)
(* up the kernel connection file, runs a pre-warm command and waits for    *)
(* its reply, then holds the process open and waits for the server.        *)
(*                                                                         *)
(* Time is counted in units of the poll interval (0.1 s).                  *)
(***************************************************************************)
EXTENDS Integers, Sequences, FiniteSets, TLC

(***************************************************************************)
(* Program constants                                                       *)
(***************************************************************************)
\* asyncio.sleep(0.1) in wait_for_server, the unit of time
PollInterval == 1
\* every DiagEvery-th failed attempt prints the waiting diagnostic
DiagEvery == 20
\* _recv_reply(msg_id, timeout=60), in units of 0.1 s
RecvTimeout == 600
\* asyncio.sleep(100), in units of 0.1 s
HoldOpen == 1000
\* the status wait_for_server takes as ready
StatusOk == 200

(***************************************************************************)
(* Bounds of the model                                                     *)
(***************************************************************************)
\* failed probes the server may answer before it is ready, whole program
MaxAttempts == 2
\* failed probes in the specification of wait_for_server alone
MaxWaitAttempts == 41
\* total lateness of the sleeps of one wait_for_server call
MaxJitter == 1
\* connection files left in the runtime directory by earlier runs
MaxStale == 2
\* iopub events the kernel emits for the request
MaxIopub == 2
\* shell replies to other requests delivered to the client
MaxOther == 1
\* delay of one shell message
MaxDelay == 1

(***************************************************************************)
(* Values                                                                  *)
(***************************************************************************)
Missing == "MISSING"
KernelIds == {"abc123"}
ExecStates == {"starting", "idle"}
\* statuses the GET /api/status probe may receive
ProbeStatuses == {200, 204, 503}
\* statuses of the POST /api/sessions response
PostStatuses == {201, 500}

\* outcome of one GET: a transport error or a response with a status
ProbeResults ==
    {[kind |-> "error", status |-> 0]} \cup
    [kind : {"response"}, status : ProbeStatuses]

\* parsed JSON body of the POST response; a field the body lacks is Missing
Bodies ==
    {[has_kernel |-> FALSE, id |-> Missing, execution_state |-> Missing]} \cup
    [has_kernel : {TRUE},
     id : KernelIds \cup {Missing},
     execution_state : ExecStates \cup {Missing}]

Responses == [body : Bodies, status : PostStatuses]

NoBody == [has_kernel |-> FALSE, id |-> Missing, execution_state |-> Missing]
NoResponse == [body |-> NoBody, status |-> 0]

\* an exception: its type and what its message carries
NoError == [type |-> "none", has_body |-> FALSE, body |-> NoBody, status |-> 0, key |-> ""]
PlainError(t) == [type |-> t, has_body |-> FALSE, body |-> NoBody, status |-> 0, key |-> ""]
KeyError(k) == [type |-> "KeyError", has_body |-> FALSE, body |-> NoBody, status |-> 0, key |-> k]
\* Exception(f"error creating kernel: {session_info} {status_code}")
CreatingKernelError(session_info, status_code) ==
    [type |-> "ErrorCreatingKernel", has_body |-> TRUE, body |-> session_info,
     status |-> status_code, key |-> ""]

\* files
Absent == "ABSENT"
NoJson == [exists |-> FALSE, json |-> NoBody]
\* json.dump(session_info, f)
JsonDump(obj) == [exists |-> TRUE, json |-> obj]
StaleBody == [has_kernel |-> TRUE, id |-> "old", execution_state |-> "starting"]

\* connection files: 0 is the file of the kernel of this run, 1.. are stale
CurrentFile == 0
NoFile == -1

\* shell messages carry the msg_id of the request they answer
RequestId == "R"
OtherId == "other"
NoMsg == [parent |-> "none"]

VARIABLES
    pc,               \* position of the main program
    exit_status,      \* -1 while running, then the exit status of the script
    error,            \* the exception that ended the script, or NoError
    child,            \* the jupyter server: "none", "running", "exited"
    child_status,     \* its exit status
    now,              \* time.time()
    counter,          \* wait_for_server: counter
    start_time,       \* wait_for_server: start_time
    wfs_elapsed,      \* wait_for_server: the elapsed time it prints, -1 before
    diags,            \* number of "Waiting for Jupyter Server" lines printed
    probes,           \* history: GETs issued
    fails,            \* history: GETs that did not get a 200
    sleeps,           \* history: asyncio.sleep(0.1) calls completed
    last_probe,       \* history: result of the latest GET
    response,         \* the response of POST /api/sessions
    server_kernel,    \* the server started a kernel for the session
    kernel_id_file,   \* ~/.jupyter/kernel_id
    session_info_file,\* ~/.jupyter/.session_info
    session_info,     \* main: session_info returned by create_session
    session_ok,       \* create_session returned
    runtime_dir,      \* files matching kernel-*.json in the runtime directory
    connection_files, \* execute_cmd_in_jupyter: connection_files
    discovered,       \* the assertion on connection_files passed
    km_connection_file, \* km.connection_file
    channels_open,    \* client.start_channels() was called
    msg_id,           \* msg_id returned by client.execute
    ex_start_time,    \* execute_cmd_in_jupyter: start_time
    deadline,         \* _recv_reply: deadline
    shell,            \* shell channel: messages delivered, not yet received
    shell_replied,    \* the kernel sent the reply to the request
    shell_others,     \* replies to other requests delivered
    iopub,            \* iopub channel: events delivered, not yet received
    iopub_total,      \* iopub events emitted
    iopub_logged,     \* "recv iopub msg" lines printed
    drain,            \* the task t: "none", "created", "waiting", "done",
                      \* "failed", "cancelling", "cancelled"
    cancel_calls,     \* t.cancel() calls made
    reply,            \* execute_cmd_in_jupyter: reply
    exec_log,         \* the "execute finished" line: elapsed, -1 before
    exec_outcome,     \* "none", "returned", "raised"
    held,             \* asyncio.sleep(100) completed
    waited            \* p.wait() returned

wfsVars == <<counter, start_time, wfs_elapsed, diags, probes, fails, sleeps, last_probe>>
csVars == <<response, server_kernel, kernel_id_file, session_info_file, session_info, session_ok>>
discVars == <<connection_files, discovered>>
chanVars == <<km_connection_file, channels_open, msg_id, ex_start_time, deadline>>
shellVars == <<shell, shell_replied, shell_others>>
iopubVars == <<iopub, iopub_total, iopub_logged>>
exVars == <<reply, exec_log, exec_outcome, cancel_calls>>
procVars == <<exit_status, error, held, waited>>
childVars == <<child, child_status>>

vars == <<pc, now, wfsVars, csVars, runtime_dir, discVars, chanVars, shellVars,
          iopubVars, drain, exVars, procVars, childVars>>

Max(a, b) == IF a >= b THEN a ELSE b

(***************************************************************************)
(* Init: the state when the script starts, before Popen.  The two session  *)
(* files and the runtime directory may hold what an earlier run left.      *)
(***************************************************************************)
Init ==
    /\ pc = "start"
    /\ exit_status = -1
    /\ error = NoError
    /\ child = "none"
    /\ child_status = -1
    /\ now = 0
    /\ counter = 0
    /\ start_time = 0
    /\ wfs_elapsed = -1
    /\ diags = 0
    /\ probes = 0
    /\ fails = 0
    /\ sleeps = 0
    /\ last_probe = [kind |-> "none", status |-> 0]
    /\ response = NoResponse
    /\ server_kernel = FALSE
    /\ \E old \in BOOLEAN :
         /\ kernel_id_file = IF old THEN "old" ELSE Absent
         /\ session_info_file = IF old THEN JsonDump(StaleBody) ELSE NoJson
    /\ session_info = NoBody
    /\ session_ok = FALSE
    /\ \E k \in 0..MaxStale : runtime_dir = 1..k
    /\ connection_files = {}
    /\ discovered = FALSE
    /\ km_connection_file = NoFile
    /\ channels_open = FALSE
    /\ msg_id = "none"
    /\ ex_start_time = 0
    /\ deadline = 0
    /\ shell = <<>>
    /\ shell_replied = FALSE
    /\ shell_others = 0
    /\ iopub = 0
    /\ iopub_total = 0
    /\ iopub_logged = 0
    /\ drain = "none"
    /\ cancel_calls = 0
    /\ reply = NoMsg
    /\ exec_log = -1
    /\ exec_outcome = "none"
    /\ held = FALSE
    /\ waited = FALSE

(***************************************************************************)
(* An exception that nothing catches leaves main; asyncio.run then shuts   *)
(* the loop down (see Shutdown) and the script ends with a traceback.      *)
(***************************************************************************)
Raise(e) ==
    /\ pc' = "shutdown"
    /\ error' = e

(***************************************************************************)
(* __main__: Popen of the server, asyncio.run(main()), entry of            *)
(* wait_for_server up to its first GET.                                    *)
(***************************************************************************)
Launch ==
    /\ pc = "start"
    /\ \E ok \in BOOLEAN :
         IF ok
         THEN /\ child' = "running"
              /\ start_time' = now
              /\ counter' = 0
              /\ pc' = "wfs_probe"
              /\ UNCHANGED <<exit_status, error>>
         ELSE \* Popen raises (no jupyter executable): the script ends
              /\ pc' = "exited"
              /\ exit_status' = 1
              /\ error' = PlainError("FileNotFoundError")
              /\ UNCHANGED <<child, start_time, counter>>
    /\ UNCHANGED <<child_status, now, wfs_elapsed, diags, probes, fails, sleeps,
                   last_probe, csVars, runtime_dir, discVars, chanVars,
                   shellVars, iopubVars, drain, exVars, held, waited>>

(***************************************************************************)
(* The server process may exit at any time, with any status.               *)
(***************************************************************************)
ChildExit ==
    /\ child = "running"
    /\ child' = "exited"
    /\ \E st \in {0, 1} : child_status' = st
    /\ UNCHANGED <<pc, now, wfsVars, csVars, runtime_dir, discVars, chanVars,
                   shellVars, iopubVars, drain, exVars, procVars>>

(***************************************************************************)
(* wait_for_server                                                         *)
(***************************************************************************)
\* what a GET can get: only a transport error once the server is gone
ProbeOutcomes ==
    IF child = "running" THEN ProbeResults
    ELSE {[kind |-> "error", status |-> 0]}

\* the try block: the loop is left iff a response came and its status is 200
ProbeSucceededAnyResponse(r) == r.kind = "response"
ProbeSucceeded(r) == r.kind = "response" /\ r.status = StatusOk

\* the diagnostic is printed when the counter reaches a multiple of DiagEvery
DiagDueEveryTime(c) == TRUE
DiagDue(c) == c % DiagEvery = 0

\* after a failed attempt the loop sleeps before it probes again
AfterFailedProbeNoSleep == "wfs_probe"
AfterFailedProbe == "wfs_sleep"

\* one iteration of the loop up to its sleep, or the break and the two
\* lines after the loop
WfsProbe(limit) ==
    /\ pc = "wfs_probe"
    /\ \E r \in ProbeOutcomes :
         /\ last_probe' = r
         /\ probes' = probes + 1
         /\ fails' = IF r.kind = "response" /\ r.status = 200 THEN fails ELSE fails + 1
         /\ IF ProbeSucceeded(r)
            THEN /\ wfs_elapsed' = now - start_time
                 /\ pc' = "cs_post"
                 /\ UNCHANGED <<counter, diags>>
            ELSE /\ counter < limit
                 /\ counter' = counter + 1
                 /\ diags' = IF DiagDue(counter + 1) THEN diags + 1 ELSE diags
                 /\ pc' = AfterFailedProbe
                 /\ UNCHANGED wfs_elapsed
    /\ UNCHANGED <<now, start_time, sleeps, csVars, runtime_dir, discVars,
                   chanVars, shellVars, iopubVars, drain, exVars, procVars,
                   childVars>>

\* await asyncio.sleep(0.1): at least the interval passes
WfsSleep ==
    /\ pc = "wfs_sleep"
    /\ \E j \in 0..MaxJitter :
         /\ now + PollInterval + j - start_time <= counter * PollInterval + MaxJitter
         /\ now' = now + PollInterval + j
    /\ sleeps' = sleeps + 1
    /\ pc' = "wfs_probe"
    /\ UNCHANGED <<counter, start_time, wfs_elapsed, diags, probes, fails,
                   last_probe, csVars, runtime_dir, discVars, chanVars,
                   shellVars, iopubVars, drain, exVars, procVars, childVars>>

(***************************************************************************)
(* create_session                                                          *)
(***************************************************************************)
\* the check of line 57
StateRejectedNever(exec_state) == FALSE
StateRejected(exec_state) == exec_state # "starting"

\* what f.write(kernel_id) leaves in the kernel-id file
KernelIdTextStale(body, old) == old
KernelIdText(body, old) == body.id

\* what json.dump(session_info, f) leaves in the session-info file
SessionInfoTextStale(body, old) == old
SessionInfoText(body, old) == JsonDump(body)

\* the exception of line 58
StateErrorNoContext(body, status_code) == PlainError("ErrorCreatingKernel")
StateError(body, status_code) == CreatingKernelError(body, status_code)

\* create_session with the kernel-id file written before the state check
CreateSessionResultWriteFirst(resp, kid_old, sif_old) ==
    LET body == resp.body
        status_code == resp.status
        failed(e) == [err |-> e, kid |-> kid_old, sif |-> sif_old, ret |-> NoBody]
    IN  IF ~body.has_kernel THEN failed(KeyError("kernel"))
        ELSE IF body.id = Missing THEN failed(KeyError("id"))
        ELSE IF body.execution_state = Missing THEN failed(KeyError("execution_state"))
        ELSE IF StateRejected(body.execution_state)
             THEN [err |-> StateError(body, status_code), kid |-> body.id,
                   sif |-> sif_old, ret |-> NoBody]
        ELSE [err |-> NoError,
              kid |-> KernelIdText(body, kid_old),
              sif |-> SessionInfoText(body, sif_old),
              ret |-> body]

\* the body of create_session after the response was read: the exception it
\* raises (NoError when it returns), the two files and the value returned
CreateSessionResult(resp, kid_old, sif_old) ==
    LET body == resp.body
        status_code == resp.status
        failed(e) == [err |-> e, kid |-> kid_old, sif |-> sif_old, ret |-> NoBody]
    IN  IF ~body.has_kernel THEN failed(KeyError("kernel"))
        ELSE IF body.id = Missing THEN failed(KeyError("id"))
        ELSE IF body.execution_state = Missing THEN failed(KeyError("execution_state"))
        ELSE IF StateRejected(body.execution_state)
             THEN failed(StateError(body, status_code))
        ELSE [err |-> NoError,
              kid |-> KernelIdText(body, kid_old),
              sif |-> SessionInfoText(body, sif_old),
              ret |-> body]

\* the server starts a kernel for the session when it answers with a kernel
ServerStartsKernel(resp) == resp.body.has_kernel /\ resp.body.id # Missing

CreateSession ==
    /\ pc = "cs_post"
    /\ IF child # "running"
       THEN \* nothing listens: s.post raises
            /\ Raise(PlainError("ClientConnectorError"))
            /\ UNCHANGED csVars
       ELSE \E resp \in Responses :
              LET res == CreateSessionResult(resp, kernel_id_file, session_info_file)
              IN  /\ response' = resp
                  /\ server_kernel' = ServerStartsKernel(resp)
                  /\ kernel_id_file' = res.kid
                  /\ session_info_file' = res.sif
                  /\ session_info' = res.ret
                  /\ IF res.err = NoError
                     THEN /\ session_ok' = TRUE
                          /\ pc' = "ex_glob"
                          /\ UNCHANGED error
                     ELSE /\ session_ok' = FALSE
                          /\ Raise(res.err)
    /\ UNCHANGED <<now, wfsVars, runtime_dir, discVars, chanVars, shellVars,
                   iopubVars, drain, exVars, exit_status, held, waited, childVars>>

\* the kernel manager of the server writes the connection file of the kernel
KernelWritesConnectionFile ==
    /\ server_kernel
    /\ CurrentFile \notin runtime_dir
    /\ runtime_dir' = runtime_dir \cup {CurrentFile}
    /\ UNCHANGED <<pc, now, wfsVars, csVars, discVars, chanVars, shellVars,
                   iopubVars, drain, exVars, procVars, childVars>>

(***************************************************************************)
(* execute_cmd_in_jupyter: connection discovery                            *)
(***************************************************************************)
\* assert len(connection_files) == 1
ExactlyOneAtLeastOne(files) == Cardinality(files) >= 1
ExactlyOne(files) == Cardinality(files) = 1

\* glob and the assertion
Discover ==
    /\ pc = "ex_glob"
    /\ connection_files' = runtime_dir
    /\ IF ExactlyOne(runtime_dir)
       THEN /\ discovered' = TRUE
            /\ pc' = "ex_open"
            /\ UNCHANGED <<error, exec_outcome>>
       ELSE /\ discovered' = FALSE
            /\ exec_outcome' = "raised"
            /\ Raise(PlainError("AssertionError"))
    /\ UNCHANGED <<now, wfsVars, csVars, runtime_dir, chanVars, shellVars,
                   iopubVars, drain, reply, exec_log, cancel_calls,
                   exit_status, held, waited, childVars>>

\* connection_files[0]: some element of the list
FirstOf(files) == CHOOSE f \in files : \A g \in files : f <= g

\* loading the connection file, opening the channels, submitting the
\* command, spawning the drain task, up to the await of the reply
OpenAndSubmit ==
    /\ pc = "ex_open"
    /\ km_connection_file' = FirstOf(connection_files)
    /\ channels_open' = TRUE
    /\ ex_start_time' = now
    /\ msg_id' = RequestId
    /\ drain' = "created"
    /\ deadline' = now + RecvTimeout
    /\ pc' = "ex_recv"
    /\ UNCHANGED <<now, wfsVars, csVars, runtime_dir, discVars, shellVars,
                   iopubVars, exVars, procVars, childVars>>

(***************************************************************************)
(* execute_cmd_in_jupyter: the wait for the reply and the drain task       *)
(***************************************************************************)
\* the kernel delivers a shell message: the reply to the request (once) or a
\* reply to some other request
ShellDeliver ==
    /\ pc = "ex_recv"
    /\ \E parent \in {RequestId, OtherId}, d \in 0..MaxDelay :
         /\ IF parent = RequestId THEN ~shell_replied ELSE shell_others < MaxOther
         /\ now + d < deadline
         /\ now' = now + d
         /\ shell' = Append(shell, [parent |-> parent])
         /\ shell_replied' = (shell_replied \/ parent = RequestId)
         /\ shell_others' = IF parent = OtherId THEN shell_others + 1 ELSE shell_others
    /\ UNCHANGED <<pc, wfsVars, csVars, runtime_dir, discVars, chanVars,
                   iopubVars, drain, exVars, procVars, childVars>>

\* the kernel emits an iopub event
IopubEmit ==
    /\ pc \in {"ex_recv", "hold", "shutdown"}
    /\ channels_open
    /\ iopub_total < MaxIopub
    /\ iopub' = iopub + 1
    /\ iopub_total' = iopub_total + 1
    /\ UNCHANGED <<pc, now, wfsVars, csVars, runtime_dir, discVars, chanVars,
                   shellVars, iopub_logged, drain, exVars, procVars, childVars>>

\* _recv_reply: reply["parent_header"].get("msg_id") != msg_id
CorrelatesAny(msg, id) == TRUE
Correlates(msg, id) == msg.parent = id

\* t.cancel(): a request to cancel a task that has not finished, nothing for
\* a task that has
CancelNothing(d) == d
Cancel(d) == IF d \in {"created", "waiting"} THEN "cancelling" ELSE d

\* _recv_reply takes the next shell message; one that answers another
\* request is dropped, the reply ends the wait: lines 86-88 follow at once
RecvStep ==
    /\ pc = "ex_recv"
    /\ shell # <<>>
    /\ shell' = Tail(shell)
    /\ IF Correlates(Head(shell), msg_id)
       THEN /\ reply' = Head(shell)
            /\ exec_log' = now - ex_start_time
            /\ drain' = Cancel(drain)
            /\ cancel_calls' = cancel_calls + 1
            /\ exec_outcome' = "returned"
            /\ pc' = "hold"
       ELSE UNCHANGED <<reply, exec_log, drain, cancel_calls, exec_outcome, pc>>
    /\ UNCHANGED <<now, wfsVars, csVars, runtime_dir, discVars, chanVars,
                   shell_replied, shell_others, iopubVars, procVars, childVars>>

\* no shell message by the deadline: _recv_reply raises TimeoutError, which
\* leaves execute_cmd_in_jupyter at line 84
RecvTimedOut ==
    /\ pc = "ex_recv"
    /\ shell = <<>>
    /\ now' = Max(now, deadline)
    /\ exec_outcome' = "raised"
    /\ Raise(PlainError("TimeoutError"))
    /\ UNCHANGED <<wfsVars, csVars, runtime_dir, discVars, chanVars, shellVars,
                   iopubVars, drain, reply, exec_log, cancel_calls,
                   exit_status, held, waited, childVars>>

\* the loop runs other tasks only while main is suspended in an await
MainSuspended == pc \in {"ex_recv", "hold", "shutdown"}

\* handle_iopub_msg starts and suspends in get_iopub_msg
DrainStart ==
    /\ MainSuspended
    /\ drain = "created"
    /\ drain' = "waiting"
    /\ UNCHANGED <<pc, now, wfsVars, csVars, runtime_dir, discVars, chanVars,
                   shellVars, iopubVars, exVars, procVars, childVars>>

\* what handle_iopub_msg does after it received and printed one event
AfterIopubMsgLoop == "waiting"
AfterIopubMsg == "done"

\* handle_iopub_msg receives one event, prints it and returns
DrainRecv ==
    /\ MainSuspended
    /\ drain = "waiting"
    /\ iopub > 0
    /\ iopub' = iopub - 1
    /\ iopub_logged' = iopub_logged + 1
    /\ drain' = AfterIopubMsg
    /\ UNCHANGED <<pc, now, wfsVars, csVars, runtime_dir, discVars, chanVars,
                   shellVars, iopub_total, exVars, procVars, childVars>>

\* get_iopub_msg raises (the channel broke): the task ends with the error
DrainFail ==
    /\ MainSuspended
    /\ drain = "waiting"
    /\ drain' = "failed"
    /\ UNCHANGED <<pc, now, wfsVars, csVars, runtime_dir, discVars, chanVars,
                   shellVars, iopubVars, exVars, procVars, childVars>>

\* the loop delivers the requested cancellation to the task
DrainCancelled ==
    /\ MainSuspended
    /\ drain = "cancelling"
    /\ drain' = "cancelled"
    /\ UNCHANGED <<pc, now, wfsVars, csVars, runtime_dir, discVars, chanVars,
                   shellVars, iopubVars, exVars, procVars, childVars>>

(***************************************************************************)
(* main after execute_cmd_in_jupyter, and the end of the script            *)
(***************************************************************************)
\* the session is closed and asyncio.sleep(100) completes; the loop has
\* delivered a pending cancellation long before
Hold ==
    /\ pc = "hold"
    /\ drain # "cancelling"
    /\ now' = now + HoldOpen
    /\ held' = TRUE
    /\ pc' = "pwait"
    /\ UNCHANGED <<wfsVars, csVars, runtime_dir, discVars, chanVars, shellVars,
                   iopubVars, drain, exVars, exit_status, error, waited, childVars>>

\* the status the script ends with once p.wait() returned: the value p.wait()
\* returns is dropped and the script runs off its end
StatusAfterWaitOfChild(st) == st
StatusAfterWait(st) == 0

\* p.wait() returns when the server has exited
PWait ==
    /\ pc = "pwait"
    /\ child = "exited"
    /\ waited' = TRUE
    /\ exit_status' = StatusAfterWait(child_status)
    /\ pc' = "exited"
    /\ UNCHANGED <<now, wfsVars, csVars, runtime_dir, discVars, chanVars,
                   shellVars, iopubVars, drain, exVars, error, held, childVars>>

\* an exception left main: asyncio.run cancels the tasks still pending and
\* closes the loop, the exception leaves the script, p.wait() is not reached
Shutdown ==
    /\ pc = "shutdown"
    /\ drain' = IF drain \in {"created", "waiting", "cancelling"} THEN "cancelled" ELSE drain
    /\ exit_status' = 1
    /\ pc' = "exited"
    /\ UNCHANGED <<now, wfsVars, csVars, runtime_dir, discVars, chanVars,
                   shellVars, iopubVars, exVars, error, held, waited, childVars>>

(***************************************************************************)
(* Specifications                                                          *)
(***************************************************************************)
Next ==
    \/ Launch
    \/ ChildExit
    \/ WfsProbe(MaxAttempts)
    \/ WfsSleep
    \/ CreateSession
    \/ KernelWritesConnectionFile
    \/ Discover
    \/ OpenAndSubmit
    \/ ShellDeliver
    \/ IopubEmit
    \/ RecvStep
    \/ RecvTimedOut
    \/ DrainStart
    \/ DrainRecv
    \/ DrainFail
    \/ DrainCancelled
    \/ Hold
    \/ PWait
    \/ Shutdown

Spec == Init /\ [][Next]_vars

\* wait_for_server alone, with room for many failed attempts
NextWait ==
    \/ Launch
    \/ ChildExit
    \/ WfsProbe(MaxWaitAttempts)
    \/ WfsSleep

SpecWait == Init /\ [][NextWait]_vars

TypeOK ==
    /\ pc \in {"start", "wfs_probe", "wfs_sleep", "cs_post", "ex_glob", "ex_open",
               "ex_recv", "hold", "pwait", "shutdown", "exited"}
    /\ exit_status \in {-1, 0, 1}
    /\ child \in {"none", "running", "exited"}
    /\ drain \in {"none", "created", "waiting", "done", "failed", "cancelling", "cancelled"}
    /\ exec_outcome \in {"none", "returned", "raised"}
    /\ counter \in 0..(MaxWaitAttempts + 1)
    /\ iopub \in 0..(MaxIopub + 1)
    /\ Len(shell) <= MaxOther + 2

\* the loop resumes main when a shell message is there to receive
FairSpec == Spec /\ WF_vars(RecvStep)

(***************************************************************************)
(* Properties                                                              *)
(***************************************************************************)
IsOk(r) == r.kind = "response" /\ r.status = 200
\* wait_for_server has returned
Ready == wfs_elapsed # -1
\* the POST was answered
Answered == response # NoResponse
\* the wait for the reply ended at the deadline without the reply
TimedOut == channels_open /\ now >= deadline /\ reply = NoMsg
\* the drain task exists, has not finished and nobody asked to cancel it
DrainPending == drain \in {"created", "waiting"}
\* the connection discovery has run
DiscoveryRan == session_ok /\ pc # "ex_glob"

\* C1: once execute_cmd_in_jupyter has finished, by returning or by raising,
\* the drain task it spawned is not left pending and uncancelled.
C1_DrainCancelledWhenFinished ==
    (exec_outcome # "none" /\ drain # "none") => ~DrainPending

\* C2: a timeout of the reply-wait is not fatal: the script does not end
\* before the grace period and the wait for the child, nor with an error.
C2_TimeoutNotFatal ==
    TimedOut => (pc \notin {"shutdown", "exited"} \/ (held /\ waited /\ exit_status = 0))

\* C3: when the N-th attempt is the first to get a 200, wait_for_server
\* returns after exactly N GETs and N-1 sleeps, none after the successful
\* attempt, and reports an elapsed time of at least N-1 poll intervals.
C3_ExactlyNAttempts ==
    Ready => /\ IsOk(last_probe)
             /\ probes = fails + 1
             /\ sleeps = fails
             /\ wfs_elapsed >= fails * PollInterval

C3_Witness ==
    Ready /\ probes = 3 /\ fails = 2 /\ sleeps = 2 /\ wfs_elapsed >= 2

\* C4: a failed probe (transport error or a status other than 200) always
\* leads to the sleep and another attempt, wait_for_server is left only by a
\* probe that got a 200 and then at once, and it never raises.
C4_OnlySuccessEndsPolling ==
    [][ /\ (pc = "wfs_probe" /\ probes' # probes /\ ~IsOk(last_probe'))
            => (pc' = "wfs_sleep" /\ ~Ready' /\ error' = NoError)
        /\ (pc = "wfs_probe" /\ probes' # probes /\ IsOk(last_probe'))
            => (pc' = "cs_post" /\ Ready')
        /\ pc = "wfs_sleep" => (pc' \in {"wfs_sleep", "wfs_probe"} /\ error' = NoError)
        /\ (pc = "wfs_probe" /\ probes' = probes) => pc' = "wfs_probe"
        /\ (pc \in {"wfs_probe", "wfs_sleep"} /\ pc' \notin {"wfs_probe", "wfs_sleep"})
            => (pc' = "cs_post" /\ IsOk(last_probe') /\ exit_status' = -1)
        /\ Ready' => IsOk(last_probe') ]_vars

C4_Witness ==
    Ready /\ fails >= 21 /\ IsOk(last_probe)

\* C5: whenever the response carries an execution_state other than
\* "starting", create_session fails with the error of the state check,
\* whatever else the response holds or lacks.
C5_NonStartingIsStateError ==
    (Answered /\ response.body.execution_state \in ExecStates \ {"starting"})
        => (~session_ok /\ error.type = "ErrorCreatingKernel")

\* C6: every failure of create_session caused by the response is reported
\* with an error whose message holds the response body and the HTTP status.
C6_FailureCarriesResponse ==
    (Answered /\ ~session_ok)
        => (error.has_body /\ error.body = response.body /\ error.status = response.status)

\* C7: for a response with kernel.id and execution_state "starting",
\* create_session succeeds, and from then on the kernel-id file holds the
\* response's kernel.id, the session-info file holds the dumped response body
\* and the returned descriptor is the response body.
C7_SuccessPersists ==
    /\ (Answered /\ response.body.has_kernel /\ response.body.id # Missing
          /\ response.body.execution_state = "starting") => session_ok
    /\ session_ok => /\ kernel_id_file = response.body.id
                     /\ session_info_file = JsonDump(response.body)
                     /\ session_info = response.body

C7_Witness ==
    session_ok /\ response.body.id = "abc123" /\ kernel_id_file = "abc123"
        /\ session_info_file.json.id = "abc123"

\* C8: discovery succeeds iff exactly one file matches, and then with that
\* file; with no file or with several it fails, and then no channel is
\* opened, no request is submitted and no drain task is spawned.
C8_DiscoveryExactlyOne ==
    DiscoveryRan =>
        /\ discovered <=> Cardinality(connection_files) = 1
        /\ ~discovered => /\ error.type = "AssertionError"
                          /\ ~channels_open
                          /\ msg_id = "none"
                          /\ drain = "none"
                          /\ km_connection_file = NoFile
        /\ channels_open => connection_files = {km_connection_file}

C8_Witness ==
    DiscoveryRan /\ Cardinality(connection_files) >= 2 /\ ~discovered
        /\ pc = "exited" /\ ~channels_open

\* C9: the correlator completes only with the reply whose parent is the
\* request's msg_id; once that reply arrived within the timeout the wait
\* never ends in a timeout and, under fair scheduling of the receive step,
\* it ends with that reply, whatever the iopub events and the drain task do.
C9_Safety ==
    /\ exec_outcome = "returned" => (reply.parent = msg_id /\ msg_id = RequestId)
    /\ (channels_open /\ shell_replied) => (exec_outcome # "raised" /\ ~TimedOut)
    /\ (pc = "ex_recv" /\ shell # <<>>) => ENABLED RecvStep

C9_CorrelatedReply ==
    /\ []C9_Safety
    /\ (pc = "ex_recv" /\ shell_replied)
          ~> (exec_outcome = "returned" /\ reply.parent = RequestId)

C9_Witness ==
    /\ exec_outcome = "returned"
    /\ reply.parent = RequestId
    /\ shell_others >= 1
    /\ iopub_total >= 2
    /\ iopub_logged = 1

\* C10: no step of the orchestrator happens before its predecessor is
\* complete: launch, successful poll, session created in state "starting",
\* connection file resolved, request submitted and awaited, grace period,
\* wait for the child.
C10_StrictOrder ==
    /\ probes > 0 => child # "none"
    /\ (pc \notin {"start", "wfs_probe", "wfs_sleep"} /\ child # "none")
          => (Ready /\ IsOk(last_probe))
    /\ Answered => Ready
    /\ (pc \in {"ex_glob", "ex_open", "ex_recv", "hold", "pwait"}
          \/ connection_files # {} \/ discovered \/ channels_open)
          => (session_ok /\ response.body.execution_state = "starting")
    /\ (channels_open \/ msg_id # "none" \/ drain # "none") => discovered
    /\ (pc \in {"hold", "pwait"} \/ held) => exec_outcome = "returned"
    /\ (pc = "pwait" \/ waited) => held

C10_Witness ==
    waited /\ held /\ exit_status = 0 /\ exec_outcome = "returned" /\ pc = "exited"

\* the response lacks a field or its state is not "starting"
SessionFailed ==
    Answered /\ ~(response.body.has_kernel /\ response.body.id # Missing
                    /\ response.body.execution_state = "starting")
\* the glob found no file or several
DiscoveryFailed == DiscoveryRan /\ Cardinality(connection_files) # 1

\* C11: when the orchestration completes, the script has waited for the
\* child and its exit status is the exit status of the child.
C11_ExitStatusOfChild ==
    (pc = "exited" /\ waited) => exit_status = child_status

\* C12: a response that fails session creation, or a glob that fails
\* discovery, puts the script on the way out with an exception and exit
\* status 1; no channel is opened, no request submitted, no later step run,
\* and neither the POST nor the glob is made again.
C12_FatalErrorsTerminate ==
    [][ (SessionFailed' \/ DiscoveryFailed') =>
          /\ pc' \in {"shutdown", "exited"}
          /\ pc' = "exited" => exit_status' = 1
          /\ error' # NoError
          /\ ~channels_open' /\ msg_id' = "none" /\ drain' = "none"
          /\ ~held' /\ ~waited'
          /\ SessionFailed' => (connection_files' = {} /\ ~discovered')
          /\ (SessionFailed \/ DiscoveryFailed)
                => /\ response' = response
                   /\ connection_files' = connection_files
                   /\ discovered' = discovered ]_vars

C12_Witness ==
    /\ SessionFailed
    /\ response.body.execution_state = "idle"
    /\ response.body.id # Missing
    /\ pc = "exited"
    /\ exit_status = 1

\* C13 as stated: a probe that got a response, whatever its status, ends the
\* polling.
C13_AnyResponseIsReady ==
    last_probe.kind = "response" => Ready

\* C13 as amended: a probe ends the polling iff it got a response with status
\* 200; a response with another status is a failed attempt like a transport
\* error.
C13_OnlyStatus200IsReady ==
    /\ last_probe.kind = "response" => (Ready <=> last_probe.status = 200)
    /\ last_probe.kind # "response" => ~Ready
    /\ (last_probe.kind = "response" /\ last_probe.status # 200)
          => (pc = "wfs_sleep" \/ (pc = "wfs_probe" /\ sleeps = fails))

C13_Witness ==
    last_probe.kind = "response" /\ last_probe.status = 503 /\ ~Ready
        /\ pc = "wfs_probe" /\ sleeps = fails

\* C14: the drain task never ends by itself: it goes on receiving iopub
\* events until it is cancelled from outside.
C14_DrainNeverEndsByItself ==
    drain # "done"

\* C15: t.cancel() never makes execute_cmd_in_jupyter fail: whatever the
\* drain task is doing when the reply arrives (not started, waiting, finished
\* or failed), the call returns, a finished or failed task is left as it is,
\* a pending one is asked to cancel, and neither a cancellation nor the
\* task's error reaches main: once the reply is received the script has no
\* error.
C15_CancelNeverFails ==
    [][ /\ (exec_outcome = "none" /\ exec_outcome' = "returned")
            => /\ cancel_calls' = cancel_calls + 1
               /\ drain' = (IF drain \in {"created", "waiting"} THEN "cancelling" ELSE drain)
               /\ Cancel(drain') = drain'
               /\ pc' = "hold"
        /\ exec_outcome' = "returned"
            => /\ error' = NoError
               /\ exit_status' \in {-1, 0}
               /\ pc' \in {"hold", "pwait", "exited"}
               /\ drain' \in {"done", "failed", "cancelling", "cancelled"}
        /\ reply' # NoMsg => exec_outcome' = "returned" ]_vars

C15_Witness ==
    exec_outcome = "returned" /\ drain = "failed" /\ cancel_calls = 1
        /\ error = NoError /\ pc = "exited" /\ exit_status = 0

\* C16: whenever the request was submitted and the reply-wait has ended, by
\* the reply or by the timeout, the elapsed time of the wait was printed.
C16_ElapsedAlwaysLogged ==
    (msg_id # "none" /\ exec_outcome # "none") => exec_log # -1

\* C17: the waiting diagnostic is printed right after the k-th failed attempt
\* iff k is a positive multiple of 20, failed attempts being transport errors
\* and responses without a 200 alike, and never for the successful attempt.
C17_DiagEvery20Failures ==
    [][ /\ fails' # fails
            => /\ fails' = fails + 1
               /\ diags' = diags + 1 <=> fails' % 20 = 0
               /\ diags' \in {diags, diags + 1}
               /\ ~IsOk(last_probe')
        /\ fails' = fails => diags' = diags
        /\ diags' = fails' \div 20 ]_vars

C17_Witness ==
    fails = 40 /\ diags = 2 /\ pc = "wfs_sleep"

\* C18 as stated: whenever discovery succeeds, the file it selects is the
\* one the kernel of this run wrote, never one left by an earlier run.
C18_NeverStaleFile ==
    discovered => (connection_files = {CurrentFile}
                      /\ km_connection_file \in {NoFile, CurrentFile})

\* C18 as amended: once the kernel of this run has written its file before
\* the glob, discovery succeeds only with that file and fails when a file of
\* an earlier run lies next to it; a file of an earlier run is selected only
\* when it is the single match because the kernel's own file is not there yet.
C18_CurrentFileOnceWritten ==
    DiscoveryRan =>
        /\ (CurrentFile \in connection_files /\ discovered)
              => (connection_files = {CurrentFile}
                    /\ km_connection_file \in {NoFile, CurrentFile})
        /\ (CurrentFile \in connection_files /\ connection_files # {CurrentFile})
              => (~discovered /\ km_connection_file = NoFile /\ ~channels_open)
        /\ (discovered /\ CurrentFile \notin connection_files)
              => (Cardinality(connection_files) = 1
                    /\ (channels_open => km_connection_file \in connection_files))

C18_Witness ==
    /\ DiscoveryRan
    /\ CurrentFile \in connection_files
    /\ connection_files # {CurrentFile}
    /\ ~discovered
    /\ pc = "exited"

\* the two files as the run found them
FilesUntouched ==
    \/ kernel_id_file = Absent /\ session_info_file = NoJson
    \/ kernel_id_file = "old" /\ session_info_file = JsonDump(StaleBody)
\* the two files as a successful create_session leaves them
FilesOfThisSession ==
    /\ kernel_id_file = response.body.id
    /\ session_info_file = JsonDump(response.body)

\* C19: a create_session call that fails on its response (a missing field or
\* a state other than "starting") writes neither file, so at any time the
\* two files are both as the run found them or both from the one successful
\* session creation.
C19_FailureWritesNothing ==
    [][ /\ SessionFailed' => /\ kernel_id_file' = kernel_id_file
                             /\ session_info_file' = session_info_file
                             /\ ~session_ok'
        /\ ~session_ok' => FilesUntouched'
        /\ session_ok' => FilesOfThisSession' ]_vars

C19_Witness ==
    /\ SessionFailed
    /\ response.body.id = "abc123"
    /\ response.body.execution_state = "idle"
    /\ kernel_id_file = "old"
    /\ session_info_file = JsonDump(StaleBody)
    /\ pc = "exited"

\* C20: the script never ends with the launched child not waited for.
C20_ChildAlwaysAwaited ==
    (pc = "exited" /\ child # "none") => waited

====
